---- MODULE Spec2Model ----
(***************************************************************************)
(* Model of src/tidal_analysis.py: the tide-gauge analysis functions       *)
(* extract_single_year_remove_mean, extract_section_remove_mean,           *)
(* join_data, sea_level_rise, tidal_analysis, get_longest_contiguous_data. *)
(*                                                                         *)
(* A series is a sequence of rows [t, v]: t a timestamp (a day number),    *)
(* v the 'Sea Level' value.  A value is a record [nan, num, den]: NaN      *)
(* (the missing marker) or the exact rational num/den, so that the float   *)
(* arithmetic of the code is modelled exactly rather than rounded.         *)
(***************************************************************************)
EXTENDS Integers, Sequences, FiniteSets

VARIABLES data, data2, call, ret, ret2

vars == <<data, data2, call, ret, ret2>>

(* ------------------------------ bounds -------------------------------- *)
MaxLen == 4        \* rows of a series handed to the extraction / analysis functions
MaxDay == 3        \* timestamps are the days 0..MaxDay
DaysPerYear == 2   \* days of one calendar year of the model's calendar
MaxLevel == 1      \* sea levels are 0..MaxLevel
MaxGapLen == 5     \* samples of a series handed to get_longest_contiguous_data
MaxJoinLen == 2    \* rows of a file handed to join_data
MaxCons == 2       \* constituents handed to tidal_analysis

Days == 0..MaxDay
Years == 0..(MaxDay \div DaysPerYear)

(* ------------------------------ values -------------------------------- *)
NaN == [nan |-> TRUE, num |-> 0, den |-> 1]
Real(n, d) == [nan |-> FALSE, num |-> n, den |-> d]
Levels == {Real(n, 1) : n \in 0..MaxLevel}
Values == Levels \cup {NaN}

\* float subtraction: NaN propagates
Sub(a, b) ==
  IF a.nan \/ b.nan THEN NaN
  ELSE Real(a.num * b.den - b.num * a.den, a.den * b.den)

Add(a, b) ==
  IF a.nan \/ b.nan THEN NaN
  ELSE Real(a.num * b.den + b.num * a.den, a.den * b.den)

RECURSIVE SumSeq(_)
SumSeq(s) == IF s = <<>> THEN Real(0, 1) ELSE Add(Head(s), SumSeq(Tail(s)))

Column(rows) == [i \in 1..Len(rows) |-> rows[i].v]
IsValid(x) == ~x.nan

Err(name) == [kind |-> "error", msg |-> name]
None == [kind |-> "none"]

(* --------------------------- series inputs ---------------------------- *)
Rows == [t : Days, v : Values]
SeqsUpTo(S, n) == UNION {[1..k -> S] : k \in 0..n}
NonDecreasing(s) == \A i \in 1..(Len(s) - 1) : s[i].t <= s[i + 1].t

\* the series with one sample on each day of T, in timestamp order
RECURSIVE InOrder(_)
InOrder(T) ==
  IF T = {} THEN <<>>
  ELSE LET first == CHOOSE d \in T : \A e \in T : d <= e
       IN  <<first>> \o InOrder(T \ {first})
SeriesOn(T, f) == [i \in 1..Cardinality(T) |-> [t |-> InOrder(T)[i], v |-> f[InOrder(T)[i]]]]
IncreasingSeries(n) ==
  UNION {{SeriesOn(T, f) : f \in [T -> Values]} :
           T \in {T \in SUBSET Days : Cardinality(T) <= n}}

(* ------------------------- pandas / numpy helpers --------------------- *)
\* data.loc[start:end] on a sorted index: the rows from the first one with
\* t >= start to the last one with t <= end, both ends included.  A row slice
\* is a view: its columns share the arrays of the frame it was cut from.
loc_slice(d, start, end) ==
  LET lo == Cardinality({k \in 1..Len(d) : d[k].t < start})
      hi == Cardinality({k \in 1..Len(d) : d[k].t <= end})
  IN  [off |-> lo, rows |-> SubSeq(d, lo + 1, hi), shares |-> TRUE]

\* data.loc[start:end, ['Sea Level']]: a list of columns makes a copy
loc_slice_cols(d, start, end) ==
  [loc_slice(d, start, end) EXCEPT !.shares = FALSE]

\* a broken variant: the mean of the raw array, NaN as soon as one sample is
np_mean_noskip(col) ==
  LET total == SumSeq(col)
  IN  IF Len(col) = 0 \/ total.nan THEN NaN
      ELSE Real(total.num, total.den * Len(col))

\* np.mean of a pandas Series dispatches to Series.mean, which skips NaN;
\* the mean of no valid value is NaN
np_mean(col) ==
  LET valid == SelectSeq(col, IsValid)
      total == SumSeq(valid)
  IN  IF Len(valid) = 0 THEN NaN
      ELSE Real(total.num, total.den * Len(valid))

\* a broken variant of frame['Sea Level'] = col: the values are written
\* through the view into the arrays of the frame the window was cut from
setitem_inplace(frame, win, col) ==
  [parent |-> IF win.shares
              THEN [k \in 1..Len(frame) |->
                      IF k > win.off /\ k <= win.off + Len(col)
                      THEN [frame[k] EXCEPT !.v = col[k - win.off]]
                      ELSE frame[k]]
              ELSE frame,
   win    |-> [win EXCEPT !.rows =
                 [i \in 1..Len(col) |-> [win.rows[i] EXCEPT !.v = col[i]]]]]

\* win['Sea Level'] = col: DataFrame.__setitem__ puts a new array in the
\* window's column; the frame the window was cut from is not written, and the
\* window's column no longer shares storage with it
setitem(frame, win, col) ==
  [parent |-> frame,
   win    |-> [off    |-> win.off,
               rows   |-> [i \in 1..Len(col) |-> [win.rows[i] EXCEPT !.v = col[i]]],
               shares |-> FALSE]]

\* column - scalar
SubScalar(col, m) == [i \in 1..Len(col) |-> Sub(col[i], m)]

\* str(year) + "0101" and str(year) + "1231" as timestamps
year_start(year) == year * DaysPerYear
year_end(year) == year * DaysPerYear + (DaysPerYear - 1)

(* ----------------------------- the functions -------------------------- *)
\* each returns [parent: the caller's frame after the call, win: the result]
extract_single_year_remove_mean(year, d) ==
  LET single_year_data == loc_slice_cols(d, year_start(year), year_end(year))
      single_year_mean == np_mean(Column(single_year_data.rows))
  IN  setitem(d, single_year_data,
              SubScalar(Column(single_year_data.rows), single_year_mean))

extract_section_remove_mean(start, end, d) ==
  LET section_data == loc_slice(d, start, end)
      section_mean == np_mean(Column(section_data.rows))
  IN  setitem(d, section_data,
              SubScalar(Column(section_data.rows), section_mean))

Window(w) == [kind |-> "window", rows |-> w.rows, off |-> w.off, shares |-> w.shares]

\* data.dropna(subset=["Sea Level"]): a new frame holding the rows with a value
dropna(d) == SelectSeq(d, LAMBDA row : IsValid(row.v))

Scale(k, x) == IF x.nan THEN NaN ELSE Real(k * x.num, x.den)
RECURSIVE SumInts(_)
SumInts(s) == IF s = <<>> THEN 0 ELSE Head(s) + SumInts(Tail(s))
SeqMax(s) == CHOOSE m \in {s[i] : i \in 1..Len(s)} : \A i \in 1..Len(s) : s[i] <= m
SeqMin(s) == CHOOSE m \in {s[i] : i \in 1..Len(s)} : \A i \in 1..Len(s) : m <= s[i]

\* scipy.stats.linregress(x, y), as far as its slope: it refuses empty
\* inputs, and identical x values when there are at least two of them;
\* a single point passes both tests and its slope is 0/0, NaN.  (Releases
\* that lack the identical-x test return NaN there as well; the single
\* point is let through by all of them.)
\* slope = ssxym / ssxm = (n*Sxy - Sx*Sy) / (n*Sxx - Sx*Sx).
\* The p-value (a t-distribution tail) is not computed here.
linregress(x, y) ==
  LET n    == Len(x)
      Sx   == SumInts(x)
      Sxx  == SumInts([i \in 1..n |-> x[i] * x[i]])
      Sy   == SumSeq(y)
      Sxy  == SumSeq([i \in 1..n |-> Scale(x[i], y[i])])
      ssxm == n * Sxx - Sx * Sx
      ssxym == Sub(Scale(n, Sxy), Scale(Sx, Sy))
  IN  IF n = 0 THEN Err("ValueError")
      ELSE IF n > 1 /\ SeqMax(x) = SeqMin(x) THEN Err("ValueError")
      ELSE [kind  |-> "trend",
            slope |-> IF ssxm = 0 THEN NaN
                      ELSE IF ssxm > 0 THEN Real(ssxym.num, ssxym.den * ssxm)
                      ELSE Real(-ssxym.num, ssxym.den * (-ssxm))]

sea_level_rise(d) ==
  LET valid  == dropna(d)
      x_data == [i \in 1..Len(valid) |-> valid[i].t]
      y_data == Column(valid)
  IN  linregress(x_data, y_data)

\* the attributes of a pandas TimedeltaIndex that the code could call here
TimedeltaIndexMethods == {"total_seconds", "to_numpy", "to_pytimedelta"}

\* (data.index - start_datetime).total_second(): TimedeltaIndex has no such
\* attribute (the method is total_seconds), so the line raises AttributeError
\* before uptide.harmonic_analysis is reached
tidal_analysis(d, constituents) ==
  LET valid == dropna(d)
  IN  IF "total_second" \in TimedeltaIndexMethods
      THEN [kind |-> "harmonic",
            amp  |-> [c \in 1..Len(constituents) |-> constituents[c]],
            pha  |-> [c \in 1..Len(constituents) |-> constituents[c]]]
      ELSE Err("AttributeError")

\* np.where(np.isnan(a))[0]: the 0-based positions of the NaN entries
where_isnan(a) ==
  SelectSeq([i \in 1..Len(a) |-> i - 1], LAMBDA p : a[p + 1].nan)

np_diff(s) == [i \in 1..(Len(s) - 1) |-> s[i + 1] - s[i]]

\* a broken variant: the 0-based index of the last maximum
argmax_last(s) ==
  (CHOOSE i \in 1..Len(s) :
     /\ \A j \in 1..Len(s) : s[j] <= s[i]
     /\ \A j \in (i + 1)..Len(s) : s[j] < s[i]) - 1

\* ndarray.argmax(): the 0-based index of the first maximum
argmax(s) ==
  (CHOOSE i \in 1..Len(s) :
     /\ \A j \in 1..Len(s) : s[j] <= s[i]
     /\ \A j \in 1..(i - 1) : s[j] < s[i]) - 1

get_longest_contiguous_data(col) ==
  LET padded     == <<NaN>> \o col \o <<NaN>>
      where_null == where_isnan(padded)
      longest_contiguous == argmax(np_diff(where_null))
  IN  [kind  |-> "range",
       start |-> where_null[longest_contiguous + 1],
       end   |-> where_null[longest_contiguous + 2]]

\* pd.read_csv(file) without index_col: the rows get the default index
\* 0, 1, 2, ... and the timestamp is an ordinary column
read_csv(file) ==
  [i \in 1..Len(file) |-> [idx |-> i - 1, t |-> file[i].t, v |-> file[i].v]]

concat(f1, f2) == f1 \o f2

is_monotonic_increasing(f) == \A i \in 1..(Len(f) - 1) : f[i].idx <= f[i + 1].idx

\* frame.sort_index(ascending=True): a frame whose index is already
\* non-decreasing is left as it is; otherwise the rows are ordered by index
\* label with the default quicksort, which fixes no order among rows of equal
\* label: every arrangement sorted by label is a possible outcome
sort_index(f) ==
  IF is_monotonic_increasing(f) THEN {f}
  ELSE LET n == Len(f)
           perms == {p \in [1..n -> 1..n] : \A i, j \in 1..n : i # j => p[i] # p[j]}
       IN  {g \in {[i \in 1..n |-> f[p[i]]] : p \in perms} : is_monotonic_increasing(g)}

\* the set of frames join_data can return for the two files
join_data(file1, file2) ==
  LET d1 == read_csv(file1)
      d2 == read_csv(file2)
      joined_data == concat(d1, d2)
  IN  sort_index(joined_data)

(* ------------------------------ actions ------------------------------- *)
Ready == call.st = "ready"
Called(fn, a, b) == [fn |-> fn, a |-> a, b |-> b, st |-> "returned"]

ExtractSingleYear ==
  /\ Ready
  /\ \E year \in Years :
       LET r == extract_single_year_remove_mean(year, data)
       IN  /\ data' = r.parent
           /\ ret' = Window(r.win)
           /\ call' = Called("extract_single_year_remove_mean", year, year)
  /\ UNCHANGED <<data2, ret2>>

ExtractSection ==
  /\ Ready
  /\ \E start \in Days, end \in Days :
       LET r == extract_section_remove_mean(start, end, data)
       IN  /\ data' = r.parent
           /\ ret' = Window(r.win)
           /\ call' = Called("extract_section_remove_mean", start, end)
  /\ UNCHANGED <<data2, ret2>>

\* the caller later overwrites one value of the window it was handed; the
\* write reaches the input frame only if the window's column shares its array
ModifyWindow ==
  /\ call.st = "returned"
  /\ ret.kind = "window"
  /\ \E i \in 1..Len(ret.rows), x \in Values :
       /\ ret' = [ret EXCEPT !.rows[i].v = x]
       /\ data' = IF ret.shares
                  THEN [data EXCEPT ![ret.off + i].v = x]
                  ELSE data
  /\ call' = [call EXCEPT !.st = "modified"]
  /\ UNCHANGED <<data2, ret2>>

\* data = data.dropna(...) rebinds the local name to a new frame, and the index
\* assignment is made on that new frame: the caller's frame is not written
SeaLevelRise ==
  /\ Ready
  /\ ret' = sea_level_rise(data)
  /\ call' = Called("sea_level_rise", 0, 0)
  /\ UNCHANGED <<data, data2, ret2>>

TidalAnalysis ==
  /\ Ready
  /\ \E n \in 0..MaxCons :
       /\ ret' = tidal_analysis(data, [c \in 1..n |-> c])
       /\ call' = Called("tidal_analysis", n, 0)
  /\ UNCHANGED <<data, data2, ret2>>

\* np.append builds a new array: the caller's series is not written
GetLongest ==
  /\ Ready
  /\ ret' = get_longest_contiguous_data(Column(data))
  /\ call' = Called("get_longest_contiguous_data", 0, 0)
  /\ UNCHANGED <<data, data2, ret2>>

JoinData12 ==
  /\ ret.kind = "none"
  /\ \E joined \in join_data(data, data2) :
       ret' = [kind |-> "frame", rows |-> joined]
  /\ call' = Called("join_data", 0, 0)
  /\ UNCHANGED <<data, data2, ret2>>

JoinData21 ==
  /\ ret2.kind = "none"
  /\ \E joined \in join_data(data2, data) :
       ret2' = [kind |-> "frame", rows |-> joined]
  /\ call' = Called("join_data", 0, 0)
  /\ UNCHANGED <<data, data2, ret>>

NoCall == [fn |-> "none", a |-> 0, b |-> 0, st |-> "ready"]

\* series with strictly increasing timestamps, as a cleaned gauge record has
Init ==
  /\ data \in IncreasingSeries(MaxLen)
  /\ data2 = <<>>
  /\ call = NoCall
  /\ ret = None
  /\ ret2 = None

Next ==
  \/ ExtractSingleYear
  \/ ExtractSection
  \/ SeaLevelRise
  \/ TidalAnalysis
  \/ GetLongest
  \/ ModifyWindow

Spec == Init /\ [][Next]_vars

\* series whose timestamps may repeat (a frame with a duplicated index)
InitTrend ==
  /\ data \in {s \in SeqsUpTo(Rows, MaxLen) : NonDecreasing(s)}
  /\ data2 = <<>>
  /\ call = NoCall
  /\ ret = None
  /\ ret2 = None

NextTrend ==
  \/ SeaLevelRise
  \/ TidalAnalysis

SpecTrend == InitTrend /\ [][NextTrend]_vars

\* value arrays of up to MaxGapLen samples, one sample a day
Daily(col) == [i \in 1..Len(col) |-> [t |-> i - 1, v |-> col[i]]]

InitGap ==
  /\ data \in {Daily(col) : col \in SeqsUpTo(Values, MaxGapLen)}
  /\ data2 = <<>>
  /\ call = NoCall
  /\ ret = None
  /\ ret2 = None

NextGap == GetLongest

SpecGap == InitGap /\ [][NextGap]_vars

\* two files of up to MaxJoinLen rows each, each in timestamp order
InitJoin ==
  /\ data \in IncreasingSeries(MaxJoinLen)
  /\ data2 \in IncreasingSeries(MaxJoinLen)
  /\ call = NoCall
  /\ ret = None
  /\ ret2 = None

NextJoin ==
  \/ JoinData12
  \/ JoinData21

SpecJoin == InitJoin /\ [][NextJoin]_vars

(* ============================== claims ================================ *)
Col == Column(data)
NValid == Len(dropna(data))

\* [s, e) is a 0-based half-open range of the input holding only valid samples
IsRun(s, e) ==
  /\ 0 <= s /\ s <= e /\ e <= Len(Col)
  /\ \A i \in s..(e - 1) : IsValid(Col[i + 1])
LongestRunLen ==
  LET lens == {e - s : s \in 0..Len(Col), e \in 0..Len(Col)} \cap
              {l \in 0..Len(Col) : \E s \in 0..Len(Col) : IsRun(s, s + l)}
  IN  CHOOSE l \in lens : \A m \in lens : m <= l
LongestRunStarts == {s \in 0..Len(Col) : IsRun(s, s + LongestRunLen)}
GapReturned == call.fn = "get_longest_contiguous_data"

\* C1: for a series with at least one valid sample get_longest_contiguous_data
\* returns (start, end) with 0 <= start < end <= length, every sample of
\* [start, end) valid, the run maximal and end - start the longest run length.
C1_LongestRunRange ==
  (GapReturned /\ NValid >= 1) =>
    /\ ret.kind = "range"
    /\ 0 <= ret.start /\ ret.start < ret.end /\ ret.end <= Len(Col)
    /\ IsRun(ret.start, ret.end)
    /\ (ret.start = 0 \/ ~IsValid(Col[ret.start]))
    /\ (ret.end = Len(Col) \/ ~IsValid(Col[ret.end + 1]))
    /\ ret.end - ret.start = LongestRunLen

C5_AllMissingFails ==
  (GapReturned /\ NValid = 0) => ret.kind = "error"

ExtractReturned ==
  /\ call.st = "returned"
  /\ call.fn \in {"extract_section_remove_mean", "extract_single_year_remove_mean"}
RangeLo == IF call.fn = "extract_section_remove_mean" THEN call.a ELSE call.a * DaysPerYear
RangeHi == IF call.fn = "extract_section_remove_mean" THEN call.b
           ELSE call.a * DaysPerYear + DaysPerYear - 1
InRange == SelectSeq(data, LAMBDA row : RangeLo <= row.t /\ row.t <= RangeHi)
InRangeValid == SelectSeq(Column(InRange), IsValid)

\* C3: an extraction whose window holds a valid sample returns exactly the
\* samples with a timestamp in the inclusive range, missing ones included; a
\* sample is missing in the output exactly when it is in the input; each valid
\* output is the input minus the mean of the window's valid values, and the
\* valid outputs sum to zero.
C3_WindowDemeaned ==
  (ExtractReturned /\ Len(InRangeValid) >= 1) =>
    /\ ret.kind = "window"
    /\ Len(ret.rows) = Len(InRange)
    /\ \A i \in 1..Len(InRange) :
         /\ ret.rows[i].t = InRange[i].t
         /\ ret.rows[i].v.nan = InRange[i].v.nan
         /\ IsValid(InRange[i].v) =>
              LET diff  == Sub(InRange[i].v, ret.rows[i].v)
                  total == SumSeq(InRangeValid)
              IN  diff.num * total.den * Len(InRangeValid) = total.num * diff.den
    /\ SumSeq(SelectSeq(Column(ret.rows), IsValid)).num = 0

C3_Witness ==
  /\ ExtractReturned
  /\ Len(InRangeValid) >= 2
  /\ Len(InRange) > Len(InRangeValid)
  /\ Len(data) > Len(InRange)
  /\ \E i \in 1..Len(ret.rows) : IsValid(ret.rows[i].v) /\ ret.rows[i].v.num # 0

\* C6: an extraction whose range holds no valid sample fails; it returns no
\* window.
C6_EmptyRangeFails ==
  (ExtractReturned /\ Len(InRangeValid) = 0) => ret.kind = "error"

SameTimes == \A i, j \in 1..Len(dropna(data)) : dropna(data)[i].t = dropna(data)[j].t

\* C7: sea_level_rise fails exactly when fewer than 2 valid samples remain or
\* all of them share one time value; otherwise it returns a trend.
C7_TrendFailsOnInsufficientData ==
  (call.fn = "sea_level_rise") =>
    IF NValid < 2 \/ SameTimes THEN ret.kind = "error" ELSE ret.kind = "trend"

\* C8: tidal_analysis fails when there are fewer valid samples than twice the
\* number of constituents, and otherwise returns one amplitude and one phase
\* per constituent.
C8_HarmonicFitOrUnderdetermined ==
  (call.fn = "tidal_analysis") =>
    IF NValid < 2 * call.a THEN ret.kind = "error"
    ELSE /\ ret.kind = "harmonic"
         /\ Len(ret.amp) = call.a
         /\ Len(ret.pha) = call.a

\* C9: no operation changes the series it is given, and a later write to the
\* returned window does not reach it either: no step changes data.
C9_InputUnchanged == [][data' = data]_vars

C9_Witness ==
  /\ call.st = "modified"
  /\ call.fn = "extract_section_remove_mean"
  /\ Len(ret.rows) >= 2
  /\ NValid >= 1

Samples(rows) == [i \in 1..Len(rows) |-> [t |-> rows[i].t, v |-> rows[i].v]]
Count(seq, x) == Cardinality({i \in 1..Len(seq) : seq[i] = x})

\* C4: join_data returns every sample of both inputs and nothing else, in
\* ascending timestamp order.
C4_JoinSortedUnion ==
  (ret.kind = "frame") =>
    /\ Len(ret.rows) = Len(data) + Len(data2)
    /\ \A x \in Rows : Count(Samples(ret.rows), x) = Count(data, x) + Count(data2, x)
    /\ \A i \in 1..(Len(ret.rows) - 1) : ret.rows[i].t <= ret.rows[i + 1].t

Disjoint == \A i \in 1..Len(data), j \in 1..Len(data2) : data[i].t # data2[j].t

\* C10: for inputs with no timestamp in common, join_data(A, B) and
\* join_data(B, A) return the same samples in the same order.
C10_JoinCommutes ==
  (ret.kind = "frame" /\ ret2.kind = "frame" /\ Disjoint) =>
    Samples(ret.rows) = Samples(ret2.rows)

====
